---- MODULE Spec2Model ----
(***************************************************************************)
(* Git-Backup-Enc: backup.py (BackupEncryptor, FileListReader, GitBackup,  *)
(* backup), restore.py (BackupDecryptor, GitRestore, restore),             *)
(* scheduler.py (BackupScheduler).                                         *)
(*                                                                         *)
(* Bytes are naturals 0..255, byte strings and text strings are sequences  *)
(* (of bytes, of code points).  A path is a sequence of names.  AES, PBKDF2*)
(* base64, json and pathspec are libraries: they are modelled by what the  *)
(* code relies on (a keyed bijection on 16-byte blocks chained as CBC, a   *)
(* deterministic key table, RFC 4648 base64url, json.dumps(indent=2) and   *)
(* json.loads for string-to-string objects, gitwildmatch for patterns      *)
(* without wildcards).                                                     *)
(***************************************************************************)
EXTENDS Integers, Sequences, FiniteSets, TLC

VARIABLES
    source,      \* the source directory and file list of the last backup: Tree(source)
    mirror,      \* backup_dir, without .git: path -> bytes of each file
    mirrorDirs,  \* backup_dir, without .git: the directories
    gitDir,      \* backup_dir/.git exists
    dest,        \* restore_dir: path -> bytes of each file
    destDirs,    \* restore_dir: the directories (<<>> is restore_dir itself)
    bk,          \* the running or last backup(): its locals and position
    rs,          \* the running or last restore(): its locals and position
    runs,        \* backup() calls started
    restores,    \* restore() calls started
    tampers,     \* changes made to the mirror from outside
    cx,          \* one call of the codec functions: inputs, position, results
    disk,        \* a file system holding source_dir and backup_dir, and the
                 \* backup() running on it
    sch          \* BackupScheduler: its fields, the position of run(), the
                 \* backup subprocess, the signals delivered

vars == <<source, mirror, mirrorDirs, gitDir, dest, destDirs, bk, rs, runs,
          restores, tampers, cx, disk, sch>>

-----------------------------------------------------------------------------
(* Bytes and text *)

BLOCK == 16
IV_LEN == 16
KEY_LEN == 32

Min(a, b) == IF a < b THEN a ELSE b

\* one bit of a xor b, in its place: w is 1, 2, 4, ... 128
XorBit(a, b, w) == (((a \div w) + (b \div w)) % 2) * w

\* a xor b for two bytes
Xor(a, b) ==
    XorBit(a, b, 1) + XorBit(a, b, 2) + XorBit(a, b, 4) + XorBit(a, b, 8)
    + XorBit(a, b, 16) + XorBit(a, b, 32) + XorBit(a, b, 64) + XorBit(a, b, 128)

XorBlock(x, y) == [i \in 1..BLOCK |-> Xor(x[i], y[i])]

Ok(v) == [ok |-> TRUE, val |-> v, err |-> ""]
Fail(e) == [ok |-> FALSE, val |-> <<>>, err |-> e]

\* the concatenation of a sequence of sequences
RECURSIVE Flatten(_)
Flatten(ss) ==
    IF ss = <<>> THEN <<>>
    ELSE IF Len(ss) = 1 THEN ss[1]
    ELSE LET h == Len(ss) \div 2 IN
         Flatten(SubSeq(ss, 1, h)) \o Flatten(SubSeq(ss, h + 1, Len(ss)))

\* str.encode('utf-8'): one to four bytes for each code point
utf8_encode(s) ==
    Flatten([i \in 1..Len(s) |->
                IF s[i] < 128 THEN <<s[i]>>
                ELSE IF s[i] < 2048
                THEN <<192 + (s[i] \div 64), 128 + (s[i] % 64)>>
                ELSE IF s[i] < 65536
                THEN <<224 + (s[i] \div 4096), 128 + ((s[i] \div 64) % 64),
                       128 + (s[i] % 64)>>
                ELSE <<240 + (s[i] \div 262144), 128 + ((s[i] \div 4096) % 64),
                       128 + ((s[i] \div 64) % 64), 128 + (s[i] % 64)>>])

IsCont(b, i) == i <= Len(b) /\ b[i] >= 128 /\ b[i] < 192

\* bytes.decode('utf-8') from byte i on: one to four byte sequences, no
\* overlong forms, no surrogates; anything else raises UnicodeDecodeError
RECURSIVE utf8_decode_from(_, _, _)
utf8_decode_from(b, i, acc) ==
    IF i > Len(b) THEN Ok(acc)
    ELSE LET c == b[i] IN
         IF c < 128 THEN utf8_decode_from(b, i + 1, Append(acc, c))
         ELSE IF c >= 194 /\ c < 224 /\ IsCont(b, i + 1)
              THEN utf8_decode_from(b, i + 2,
                       Append(acc, ((c - 192) * 64) + (b[i + 1] - 128)))
         ELSE IF c >= 224 /\ c < 240 /\ IsCont(b, i + 1) /\ IsCont(b, i + 2)
              THEN LET cp == ((c - 224) * 4096) + ((b[i + 1] - 128) * 64)
                             + (b[i + 2] - 128) IN
                   IF cp < 2048 \/ (cp >= 55296 /\ cp < 57344)
                   THEN Fail("UnicodeDecodeError")
                   ELSE utf8_decode_from(b, i + 3, Append(acc, cp))
         ELSE IF c >= 240 /\ c < 245 /\ IsCont(b, i + 1) /\ IsCont(b, i + 2)
                 /\ IsCont(b, i + 3)
              THEN LET cp == ((c - 240) * 262144) + ((b[i + 1] - 128) * 4096)
                             + ((b[i + 2] - 128) * 64) + (b[i + 3] - 128) IN
                   IF cp < 65536 \/ cp > 1114111
                   THEN Fail("UnicodeDecodeError")
                   ELSE utf8_decode_from(b, i + 4, Append(acc, cp))
         ELSE Fail("UnicodeDecodeError")

\* bytes.decode('utf-8').  A long text is decoded in two halves cut where a
\* character starts (a byte that is no continuation byte); four continuation
\* bytes in a row are in no valid text
RECURSIVE utf8_decode(_)
utf8_decode(b) ==
    IF Len(b) <= 8 THEN utf8_decode_from(b, 1, <<>>)
    ELSE LET h == Len(b) \div 2
             cuts == {m \in h..(h + 3) : ~IsCont(b, m + 1)}
         IN  IF cuts = {} THEN Fail("UnicodeDecodeError")
             ELSE LET m == CHOOSE x \in cuts : \A y \in cuts : x <= y
                      l == utf8_decode(SubSeq(b, 1, m))
                      r == utf8_decode(SubSeq(b, m + 1, Len(b)))
                  IN  IF l.ok /\ r.ok THEN Ok(l.val \o r.val)
                      ELSE Fail("UnicodeDecodeError")

-----------------------------------------------------------------------------
(* BackupEncryptor / BackupDecryptor *)

\* PBKDF2-HMAC-SHA256 with the fixed salt: a deterministic function of the
\* password alone, the same in backup.py and restore.py
RECURSIVE PwSum(_, _, _)
PwSum(pw, j, i) ==
    IF j > Len(pw) THEN 0 ELSE (pw[j] * (i + j)) + PwSum(pw, j + 1, i)

derive(password) ==
    [i \in 1..KEY_LEN |-> (PwSum(password, 1, i) + (31 * i) + Len(password)) % 256]

\* AES on one block: a bijection on 16-byte blocks for each key
AESEncryptBlock(key, p) ==
    [i \in 1..BLOCK |-> (p[(i % BLOCK) + 1] + key[i] + key[i + BLOCK]) % 256]

AESDecryptBlock(key, c) ==
    [j \in 1..BLOCK |->
        LET i == ((j + BLOCK - 2) % BLOCK) + 1 IN
        (c[i] + 512 - key[i] - key[i + BLOCK]) % 256]

\* a padder that adds nothing to data that already fills its blocks
PKCS7Pad_NoFullBlock(data) ==
    LET n == (BLOCK - (Len(data) % BLOCK)) % BLOCK IN data \o [i \in 1..n |-> n]

\* padding.PKCS7(128).padder()
PKCS7Pad(data) ==
    LET n == BLOCK - (Len(data) % BLOCK) IN data \o [i \in 1..n |-> n]

\* padding.PKCS7(128).unpadder(): update + finalize
PKCS7Unpad(padded) ==
    LET len == Len(padded) IN
    IF len = 0 \/ len % BLOCK # 0 THEN Fail("ValueError: Invalid padding bytes")
    ELSE LET n == padded[len] IN
         IF n < 1 \/ n > BLOCK \/ \E i \in (len - n + 1)..len : padded[i] # n
         THEN Fail("ValueError: Invalid padding bytes")
         ELSE Ok(SubSeq(padded, 1, len - n))

\* Cipher(AES(key), CBC(iv)).encryptor(): update + finalize, on whole blocks
RECURSIVE CBCEncrypt(_, _, _)
CBCEncrypt(key, prev, data) ==
    IF data = <<>> THEN <<>>
    ELSE LET c == AESEncryptBlock(key, XorBlock(SubSeq(data, 1, BLOCK), prev)) IN
         c \o CBCEncrypt(key, c, SubSeq(data, BLOCK + 1, Len(data)))

RECURSIVE CBCDecrypt(_, _, _)
CBCDecrypt(key, prev, data) ==
    IF data = <<>> THEN <<>>
    ELSE LET c == SubSeq(data, 1, BLOCK) IN
         XorBlock(AESDecryptBlock(key, c), prev)
             \o CBCDecrypt(key, c, SubSeq(data, BLOCK + 1, Len(data)))

\* an encrypt_data that returns the ciphertext without the IV before it
encrypt_data_NoIV(key, iv, data) == CBCEncrypt(key, iv, PKCS7Pad(data))

\* BackupEncryptor.encrypt_data; iv is what os.urandom(16) returned
encrypt_data(key, iv, data) == iv \o CBCEncrypt(key, iv, PKCS7Pad(data))

\* a decrypt_data that decrypts the whole blocks after the IV and drops what
\* is left over
decrypt_data_DropTail(key, encrypted_data) ==
    LET iv == SubSeq(encrypted_data, 1, Min(IV_LEN, Len(encrypted_data)))
        encrypted == SubSeq(encrypted_data, IV_LEN + 1,
                            Len(encrypted_data) - (Len(encrypted_data) % BLOCK))
    IN  IF Len(iv) # IV_LEN THEN Fail("ValueError: Invalid IV size")
        ELSE PKCS7Unpad(CBCDecrypt(key, iv, encrypted))

\* BackupDecryptor.decrypt_data
decrypt_data(key, encrypted_data) ==
    LET iv == SubSeq(encrypted_data, 1, Min(IV_LEN, Len(encrypted_data)))
        encrypted == SubSeq(encrypted_data, IV_LEN + 1, Len(encrypted_data))
    IN  IF Len(iv) # IV_LEN THEN Fail("ValueError: Invalid IV size")
        ELSE IF Len(encrypted) % BLOCK # 0
             THEN Fail("ValueError: not a multiple of the block length")
        ELSE PKCS7Unpad(CBCDecrypt(key, iv, encrypted))

\* base64url alphabet: value 0..63 -> character
B64Char(v) ==
    IF v < 26 THEN 65 + v
    ELSE IF v < 52 THEN 97 + (v - 26)
    ELSE IF v < 62 THEN 48 + (v - 52)
    ELSE IF v = 62 THEN 45 ELSE 95

\* base64.urlsafe_b64encode: three bytes give four characters, a last group
\* of one or two bytes is filled with "="
B64Group(b) ==
    IF Len(b) = 1 THEN
        <<B64Char(b[1] \div 4), B64Char((b[1] % 4) * 16), 61, 61>>
    ELSE IF Len(b) = 2 THEN
        <<B64Char(b[1] \div 4), B64Char(((b[1] % 4) * 16) + (b[2] \div 16)),
          B64Char((b[2] % 16) * 4), 61>>
    ELSE <<B64Char(b[1] \div 4), B64Char(((b[1] % 4) * 16) + (b[2] \div 16)),
           B64Char(((b[2] % 16) * 4) + (b[3] \div 64)), B64Char(b[3] % 64)>>

urlsafe_b64encode(b) ==
    Flatten([g \in 1..((Len(b) + 2) \div 3) |->
                B64Group(SubSeq(b, (3 * g) - 2, Min(3 * g, Len(b))))])

\* str.rstrip('=')
RECURSIVE rstrip_eq(_)
rstrip_eq(s) ==
    IF s # <<>> /\ s[Len(s)] = 61 THEN rstrip_eq(SubSeq(s, 1, Len(s) - 1)) ELSE s

\* BackupEncryptor.encrypt_filename
encrypt_filename(key, iv, filename) ==
    rstrip_eq(urlsafe_b64encode(encrypt_data(key, iv, utf8_encode(filename))))

\* a character of the base64url alphabet
IsB64Char(c) ==
    \/ (c >= 65 /\ c <= 90) \/ (c >= 97 /\ c <= 122) \/ (c >= 48 /\ c <= 57)
    \/ c = 45 \/ c = 95

\* base64url alphabet: character -> value 0..63
B64Val(c) ==
    IF c >= 65 /\ c <= 90 THEN c - 65
    ELSE IF c >= 97 /\ c <= 122 THEN (c - 97) + 26
    ELSE IF c >= 48 /\ c <= 57 THEN (c - 48) + 52
    ELSE IF c = 45 THEN 62 ELSE 63

\* the bytes of one group of two, three or four characters
B64Bytes(g) ==
    LET v == [i \in 1..Len(g) |-> B64Val(g[i])]
        b1 == (v[1] * 4) + (v[2] \div 16)
    IN  IF Len(g) = 2 THEN <<b1>>
        ELSE IF Len(g) = 3 THEN <<b1, ((v[2] % 16) * 16) + (v[3] \div 4)>>
        ELSE <<b1, ((v[2] % 16) * 16) + (v[3] \div 4), ((v[3] % 4) * 64) + v[4]>>

\* base64.urlsafe_b64decode: characters outside the alphabet are dropped, the
\* characters left are taken four at a time, a last group of two or three
\* needs its "=" after it, a last group of one is an error
urlsafe_b64decode(s) ==
    LET body == rstrip_eq(s)
        pads == Len(s) - Len(body)
        d == SelectSeq(body, IsB64Char)
        r == Len(d) % 4
    IN  IF r = 1 THEN Fail("binascii.Error: Invalid base64-encoded string")
        ELSE IF (r = 2 /\ pads < 2) \/ (r = 3 /\ pads < 1)
        THEN Fail("binascii.Error: Incorrect padding")
        ELSE Ok(Flatten([g \in 1..((Len(d) + 3) \div 4) |->
                            B64Bytes(SubSeq(d, (4 * g) - 3, Min(4 * g, Len(d))))]))

\* encrypted_filename += '=' * padding_needed
b64_pad(s) == s \o [i \in 1..((4 - (Len(s) % 4)) % 4) |-> 61]

\* a decrypt_filename that decodes the name as it is, without its "="
decrypt_filename_NoPadding(key, encrypted_filename) ==
    LET encrypted_data == urlsafe_b64decode(encrypted_filename) IN
    IF \E i \in 1..Len(encrypted_filename) : encrypted_filename[i] >= 128
    THEN Fail("UnicodeEncodeError")
    ELSE IF ~encrypted_data.ok THEN encrypted_data
    ELSE LET decrypted == decrypt_data(key, encrypted_data.val) IN
         IF ~decrypted.ok THEN decrypted ELSE utf8_decode(decrypted.val)

\* BackupDecryptor.decrypt_filename
decrypt_filename(key, encrypted_filename) ==
    LET encrypted_data == urlsafe_b64decode(b64_pad(encrypted_filename)) IN
    IF \E i \in 1..Len(encrypted_filename) : encrypted_filename[i] >= 128
    THEN Fail("UnicodeEncodeError")
    ELSE IF ~encrypted_data.ok THEN encrypted_data
    ELSE LET decrypted == decrypt_data(key, encrypted_data.val) IN
         IF ~decrypted.ok THEN decrypted ELSE utf8_decode(decrypted.val)

-----------------------------------------------------------------------------
(* json: the mapping is a dict of str to str, kept as the sequence of its *)
(* <<key, value>> items in insertion order                                *)

HexDigit(v) == IF v < 10 THEN 48 + v ELSE 87 + v

\* json.dumps of one character of a string (ensure_ascii)
json_escape_char(c) ==
    IF c = 34 THEN <<92, 34>>
    ELSE IF c = 92 THEN <<92, 92>>
    ELSE IF c = 10 THEN <<92, 110>>
    ELSE IF c = 13 THEN <<92, 114>>
    ELSE IF c = 9 THEN <<92, 116>>
    ELSE IF c = 8 THEN <<92, 98>>
    ELSE IF c = 12 THEN <<92, 102>>
    ELSE IF c < 32 \/ c > 126
         THEN <<92, 117, HexDigit(c \div 4096), HexDigit((c \div 256) % 16),
                HexDigit((c \div 16) % 16), HexDigit(c % 16)>>
    ELSE <<c>>

json_escape(s) == Flatten([i \in 1..Len(s) |-> json_escape_char(s[i])])

json_item(item) ==
    <<32, 32, 34>> \o json_escape(item[1]) \o <<34, 58, 32, 34>>
        \o json_escape(item[2]) \o <<34>>

RECURSIVE json_items(_)
json_items(m) ==
    IF Len(m) = 1 THEN json_item(m[1])
    ELSE json_item(m[1]) \o <<44, 10>> \o json_items(Tail(m))

\* json.dumps(mapping, indent=2)
json_dumps(m) ==
    IF m = <<>> THEN <<123, 125>>
    ELSE <<123, 10>> \o json_items(m) \o <<10, 125>>

\* mapping[key] = value on a dict
dict_set(m, key, value) ==
    IF \E i \in 1..Len(m) : m[i][1] = key
    THEN [i \in 1..Len(m) |-> IF m[i][1] = key THEN <<key, value>> ELSE m[i]]
    ELSE Append(m, <<key, value>>)

IsWs(c) == c \in {32, 9, 10, 13}

RECURSIVE SkipWs(_, _)
SkipWs(s, i) == IF i <= Len(s) /\ IsWs(s[i]) THEN SkipWs(s, i + 1) ELSE i

HexVal(c) ==
    IF c >= 48 /\ c <= 57 THEN c - 48
    ELSE IF c >= 97 /\ c <= 102 THEN c - 87
    ELSE IF c >= 65 /\ c <= 70 THEN c - 55
    ELSE -1

At(s, i) == IF i >= 1 /\ i <= Len(s) THEN s[i] ELSE -1

\* the backslashes in a row that end right before position p, from lo on
RunBefore(s, lo, p) ==
    LET stops == {m \in (lo - 1)..(p - 1) : m = lo - 1 \/ s[m] # 92}
    IN  (p - 1) - (CHOOSE m \in stops : \A x \in stops : x <= m)

\* position p of a string's characters starts an escape
EscapeAt(s, lo, p) == p >= lo /\ At(s, p) = 92 /\ RunBefore(s, lo, p) % 2 = 0

\* what the character at p of a string that starts at lo stands for: one
\* character, nothing when an escape before it took it, or -1 in an invalid
\* string
StringPiece(s, lo, hi, p) ==
    LET c == s[p] IN
    IF EscapeAt(s, lo, p) THEN
        LET e == IF p + 1 <= hi THEN s[p + 1] ELSE -1 IN
        IF e \in {34, 92, 47} THEN <<e>>
        ELSE IF e = 110 THEN <<10>>
        ELSE IF e = 114 THEN <<13>>
        ELSE IF e = 116 THEN <<9>>
        ELSE IF e = 98 THEN <<8>>
        ELSE IF e = 102 THEN <<12>>
        ELSE IF e = 117 /\ p + 5 <= hi /\ \A k \in 2..5 : HexVal(s[p + k]) >= 0
             THEN <<(HexVal(s[p + 2]) * 4096) + (HexVal(s[p + 3]) * 256)
                    + (HexVal(s[p + 4]) * 16) + HexVal(s[p + 5])>>
        ELSE <<-1>>
    ELSE IF EscapeAt(s, lo, p - 1) THEN <<>>
    ELSE IF \E k \in 2..5 : EscapeAt(s, lo, p - k) /\ s[(p - k) + 1] = 117 THEN <<>>
    ELSE IF c < 32 THEN <<-1>>
    ELSE <<c>>

\* the JSON string whose characters start at i (its opening quote is at
\* i - 1), up to its closing quote: [ok, val, pos]
ParseString(s, i, acc) ==
    LET ends == {j \in i..Len(s) : s[j] = 34 /\ RunBefore(s, i, j) % 2 = 0}
        bad == [ok |-> FALSE, val |-> <<>>, pos |-> i]
    IN  IF ends = {} THEN bad
        ELSE LET j == CHOOSE x \in ends : \A y \in ends : x <= y
                 val == IF \A p \in i..(j - 1) : s[p] # 92 /\ s[p] >= 32
                        THEN SubSeq(s, i, j - 1)
                        ELSE Flatten([k \in 1..(j - i) |->
                                        StringPiece(s, i, j - 1, (i + k) - 1)])
             IN  IF \E k \in 1..Len(val) : val[k] = -1 THEN bad
                 ELSE [ok |-> TRUE, val |-> acc \o val, pos |-> j + 1]

\* the members of an object from position i (a key's opening quote): the
\* dict, or JSONDecodeError
RECURSIVE ParseMembers(_, _, _)
ParseMembers(s, i, acc) ==
    IF At(s, i) # 34 THEN Fail("JSONDecodeError")
    ELSE LET k == ParseString(s, i + 1, <<>>)
             c == SkipWs(s, k.pos)
             q == SkipWs(s, c + 1)
         IN
         IF ~k.ok \/ At(s, c) # 58 \/ At(s, q) # 34 THEN Fail("JSONDecodeError")
         ELSE LET v == ParseString(s, q + 1, <<>>)
                  n == SkipWs(s, v.pos)
                  d == dict_set(acc, k.val, v.val)
              IN
              IF ~v.ok THEN Fail("JSONDecodeError")
              ELSE IF At(s, n) = 44 THEN ParseMembers(s, SkipWs(s, n + 1), d)
              ELSE IF At(s, n) = 125 /\ SkipWs(s, n + 1) > Len(s) THEN Ok(d)
              ELSE Fail("JSONDecodeError")

\* json.loads of a text that is an object of strings; any other text is
\* reported as JSONDecodeError
json_loads(s) ==
    LET i == SkipWs(s, 1)
        j == SkipWs(s, i + 1)
    IN  IF At(s, i) # 123 THEN Fail("JSONDecodeError")
        ELSE IF At(s, j) = 125
             THEN (IF SkipWs(s, j + 1) > Len(s) THEN Ok(<<>>)
                   ELSE Fail("JSONDecodeError"))
        ELSE ParseMembers(s, j, <<>>)

-----------------------------------------------------------------------------
(* Paths *)

\* str(Path(*parts)): the parts joined with "/"
RECURSIVE path_str(_)
path_str(parts) ==
    IF parts = <<>> THEN <<46>>
    ELSE IF Len(parts) = 1 THEN parts[1]
    ELSE parts[1] \o <<47>> \o path_str(Tail(parts))

\* Path(s).parts for a relative s: split at "/", empty and "." parts dropped
RECURSIVE path_parts_from(_, _)
path_parts_from(s, i) ==
    IF i > Len(s) + 1 THEN <<>>
    ELSE LET stops == {j \in i..(Len(s) + 1) : j = Len(s) + 1 \/ s[j] = 47}
             j == CHOOSE x \in stops : \A y \in stops : x <= y
             part == SubSeq(s, i, j - 1)
         IN  (IF part = <<>> \/ part = <<46>> THEN <<>> ELSE <<part>>)
                 \o path_parts_from(s, j + 1)

path_parts(s) == path_parts_from(s, 1)

\* the proper prefixes of a path, without the root: the directories
\* mkdir(parents=True) / os.makedirs creates for a file at that path
Parents(path) == {SubSeq(path, 1, n) : n \in 1..(Len(path) - 1)}

MAPPING_ENC == <<<<109, 97, 112, 112, 105, 110, 103, 46, 101, 110, 99>>>>

-----------------------------------------------------------------------------
(* Bounds of the model *)

\* source directories and file lists tried: Tree(1..NumTrees)
NumTrees == 5
\* values os.urandom(16) may return: IV(1..NumIVs)
NumIVs == 2
\* passwords a config may hold: Password(1..NumPasswords)
NumPasswords == 2
\* calls of backup()
MaxRuns == 2
\* calls of restore()
MaxRestores == 1
\* changes made to the mirror from outside
MaxTampers == 1

nA == <<97>>
nB == <<98>>
nD == <<100>>
nN == <<110>>
nR == <<114>>
nE == <<233>>

hello == <<104, 101, 108, 108, 111>>
world == <<119, 111, 114, 108, 100>>
block16 == [i \in 1..BLOCK |-> 64 + i]

EmptyFiles == [p \in {} |-> <<>>]

\* A source directory with its file list: files (relative path -> bytes), the
\* files open() cannot read, and the patterns of the file list
Tree(n) ==
    CASE n = 1 -> [files |-> (<<nD, nN>> :> hello) @@ (<<nR>> :> world),
                   unreadable |-> {}, patterns |-> {<<100, 47, 110>>, nR}]
      [] n = 2 -> [files |-> (<<nE>> :> <<>>) @@ (<<nB>> :> world),
                   unreadable |-> {}, patterns |-> {nE}]
      [] n = 3 -> [files |-> (<<nA>> :> hello),
                   unreadable |-> {}, patterns |-> {nR}]
      [] n = 4 -> [files |-> (<<nA>> :> hello) @@ (<<nB>> :> world),
                   unreadable |-> {<<nB>>}, patterns |-> {nA, nB}]
      [] n = 5 -> [files |-> (<<nD, nN>> :> block16) @@ (<<nR>> :> world),
                   unreadable |-> {}, patterns |-> {nD}]
      [] n = 6 -> [files |-> (<<nD, nN>> :> hello) @@ (<<nD, nE>> :> nA),
                   unreadable |-> {}, patterns |-> {nD}]
      [] OTHER -> [files |-> EmptyFiles, unreadable |-> {}, patterns |-> {}]

\* what os.urandom(16) may return
IV(n) == [i \in 1..IV_LEN |-> ((37 * i) + (101 * n)) % 256]
IVs == {IV(n) : n \in 1..NumIVs}

\* the values os.urandom(16) returns to the calls of one pass of the backup
\* loop, the first of them being IV(k): one for each part of the path, then
\* one for the content
PassIVs(k, n) == [i \in 1..n |-> IV(((k + i + NumIVs - 2) % NumIVs) + 1)]

Password(n) == <<112, 119, 48 + n>>
Passwords == {Password(n) : n \in 1..NumPasswords}

-----------------------------------------------------------------------------
(* FileListReader *)

\* spec.match_file for a gitwildmatch pattern without wildcards: a pattern
\* with a "/" is anchored at the source directory and matches the path or
\* what is under it, a single name matches a file or directory of that name
\* at any depth
match_file(pattern, path) ==
    LET pp == path_parts(pattern) IN
    IF Len(pp) > 1
    THEN Len(pp) <= Len(path) /\ SubSeq(path, 1, Len(pp)) = pp
    ELSE \E i \in 1..Len(path) : <<path[i]>> = pp

\* FileListReader.get_matching_files
get_matching_files(tree) ==
    {f \in DOMAIN tree.files : \E pat \in tree.patterns : match_file(pat, f)}

-----------------------------------------------------------------------------
(* The file system *)

\* Path.exists() under backup_dir
mirror_exists(files, dirs, path) ==
    path = <<>> \/ path \in DOMAIN files \/ path \in dirs

\* a clearing loop that unlinks the files of backup_dir itself and leaves what
\* its directories hold
clear_backup_dir_TopLevelOnly(files) ==
    [q \in {q \in DOMAIN files : Len(q) > 1} |-> files[q]]

\* the clearing loop of backup(): every item of backup_dir but .git is
\* removed, directories with all they hold
clear_backup_dir(files) == EmptyFiles

clear_backup_dirs(dirs) == {}

\* Path.mkdir(parents=True, exist_ok=True) of a file's parent
mkdir_parents(files, dirs, path) ==
    IF \E d \in Parents(path) : d \in DOMAIN files
    THEN [ok |-> FALSE, dirs |-> dirs, err |-> "FileExistsError"]
    ELSE [ok |-> TRUE, dirs |-> dirs \cup Parents(path), err |-> ""]

\* an encrypt_file that takes a source file it cannot read for an empty one
encrypt_file_SkipUnreadable(key, iv, tree, input_path, files, dirs, output_path) ==
    IF output_path \in dirs
    THEN [ok |-> FALSE, files |-> files, err |-> "IsADirectoryError"]
    ELSE [ok |-> TRUE,
          files |-> [q \in DOMAIN files \cup {output_path} |->
                        IF q = output_path
                        THEN encrypt_data(key, iv,
                                 IF input_path \in DOMAIN tree.files
                                    /\ input_path \notin tree.unreadable
                                 THEN tree.files[input_path] ELSE <<>>)
                        ELSE files[q]],
          err |-> ""]

\* BackupEncryptor.encrypt_file: the source file is read, then the output
\* is opened and written
encrypt_file(key, iv, tree, input_path, files, dirs, output_path) ==
    IF input_path \notin DOMAIN tree.files \/ input_path \in tree.unreadable
    THEN [ok |-> FALSE, files |-> files, err |-> "SourceReadError"]
    ELSE IF output_path \in dirs
    THEN [ok |-> FALSE, files |-> files, err |-> "IsADirectoryError"]
    ELSE [ok |-> TRUE,
          files |-> [q \in DOMAIN files \cup {output_path} |->
                        IF q = output_path
                        THEN encrypt_data(key, iv, tree.files[input_path])
                        ELSE files[q]],
          err |-> ""]

\* a decrypt_file that opens its output before it decrypts: a failed
\* decryption leaves the output made, and empty
decrypt_file_OpenFirst(key, files, dirs, input_path, out, outDirs, output_path) ==
    IF input_path \notin DOMAIN files
    THEN [ok |-> FALSE, out |-> out, outDirs |-> outDirs,
          err |-> "IsADirectoryError"]
    ELSE IF \E d \in Parents(output_path) : d \in DOMAIN out
    THEN [ok |-> FALSE, out |-> out, outDirs |-> outDirs,
          err |-> "FileExistsError"]
    ELSE IF output_path = <<>> \/ output_path \in outDirs
    THEN [ok |-> FALSE, out |-> out,
          outDirs |-> outDirs \cup Parents(output_path),
          err |-> "IsADirectoryError"]
    ELSE LET decrypted == decrypt_data(key, files[input_path]) IN
         [ok |-> decrypted.ok,
          out |-> [q \in DOMAIN out \cup {output_path} |->
                      IF q = output_path THEN decrypted.val ELSE out[q]],
          outDirs |-> outDirs \cup {<<>>} \cup Parents(output_path),
          err |-> decrypted.err]

\* BackupDecryptor.decrypt_file: the input is read and decrypted, then the
\* parents of the output are made and the output is written
decrypt_file(key, files, dirs, input_path, out, outDirs, output_path) ==
    IF input_path \notin DOMAIN files
    THEN [ok |-> FALSE, out |-> out, outDirs |-> outDirs,
          err |-> "IsADirectoryError"]
    ELSE LET decrypted == decrypt_data(key, files[input_path]) IN
         IF ~decrypted.ok
         THEN [ok |-> FALSE, out |-> out, outDirs |-> outDirs,
               err |-> decrypted.err]
         ELSE IF \E d \in Parents(output_path) : d \in DOMAIN out
         THEN [ok |-> FALSE, out |-> out, outDirs |-> outDirs,
               err |-> "FileExistsError"]
         ELSE IF output_path = <<>> \/ output_path \in outDirs
         THEN [ok |-> FALSE, out |-> out,
               outDirs |-> outDirs \cup Parents(output_path),
               err |-> "IsADirectoryError"]
         ELSE [ok |-> TRUE,
               out |-> [q \in DOMAIN out \cup {output_path} |->
                           IF q = output_path THEN decrypted.val ELSE out[q]],
               outDirs |-> outDirs \cup {<<>>} \cup Parents(output_path),
               err |-> ""]

-----------------------------------------------------------------------------
(* backup() *)

\* backup(): pc is its position, key, todo (the files of matching_files the
\* loop has yet to take) and mapping are its locals.  The other fields record
\* the run: selected (matching_files), early (the return on an empty
\* selection), saved (the mapping file was written), committed
\* (commit_and_push was called), stale (what backup_dir held when the run
\* cleared it), made (the files and directories the run created or wrote),
\* enc (relative path -> encrypted path of each file done), origin (the
\* <<encrypted name, name>> pairs of the encrypt_filename calls whose results
\* backup_dir may hold), err
BkIdle ==
    [pc |-> "idle", key |-> <<>>, todo |-> {}, selected |-> {}, mapping |-> <<>>,
     err |-> "", early |-> FALSE, saved |-> FALSE, committed |-> FALSE,
     stale |-> 0, made |-> {}, enc |-> EmptyFiles, origin |-> {}]

\* restore(): pc is its position, key, mapping, idx (the item of
\* mapping.items() the loop is at) and restored_count are its locals.  The
\* other fields record the run: writes (the files of restore_dir it created
\* or changed), madeDirs (the directories it created), skipped (the items it
\* skipped), tampers (the mirror it ran on), err
RsIdle ==
    [pc |-> "idle", key |-> <<>>, mapping |-> <<>>, idx |-> 0,
     restored_count |-> 0, err |-> "", writes |-> {}, madeDirs |-> {},
     skipped |-> {}, tampers |-> 0]

\* the files a step created or changed
Changed(before, after) ==
    {q \in DOMAIN after : q \notin DOMAIN before \/ before[q] # after[q]}

\* mapping[str(encrypted_rel_path)] = str(rel_path): the key and the value
\* a key that keeps the encrypted file name and drops its directories
mapping_key_NameOnly(encrypted_rel_path) ==
    path_str(<<encrypted_rel_path[Len(encrypted_rel_path)]>>)

mapping_key(encrypted_rel_path) == path_str(encrypted_rel_path)

\* a value that keeps the file's name and drops its directories
mapping_value_NameOnly(rel_path) == path_str(<<rel_path[Len(rel_path)]>>)

mapping_value(rel_path) == path_str(rel_path)

Stopped(p) == p.pc \in {"idle", "done", "failed"}

\* backup() on the one file system: source_dir, backup_dir and patterns are
\* the configuration, files (absolute path -> bytes), unreadable (the files
\* open() cannot read) and dirs the file system, pc the position of backup(), key, matching_files, todo and mapping
\* its locals.  The other fields record the runs: early (the return on an
\* empty selection), before (the files when the run began), wrote (the files
\* the calls of backup() have written), err
DiskIdle ==
    [pc |-> "none", source_dir |-> <<>>, backup_dir |-> <<>>, patterns |-> {},
     files |-> EmptyFiles, unreadable |-> {}, dirs |-> {}, key |-> <<>>,
     matching_files |-> {},
     todo |-> {}, mapping |-> <<>>, early |-> FALSE, err |-> "", runs |-> 0,
     before |-> EmptyFiles, wrote |-> {}]

\* BackupScheduler: running and interval (the sleeps of one interval) are
\* its fields, pc is the position of run(), elapsed its local.  The other
\* fields are the world around it: config_exists, overflow (the interval is
\* one datetime.fromtimestamp cannot take), child (the backup subprocess is
\* alive), signals (SIGINT and SIGTERM delivered), backups (subprocesses
\* started), late (those started with running False)
SchIdle ==
    [pc |-> "none", running |-> TRUE, interval |-> 1, elapsed |-> 0,
     config_exists |-> TRUE, overflow |-> FALSE, child |-> 0, signals |-> 0,
     backups |-> 0, late |-> 0]

\* no call of the codec functions is under way
CxIdle ==
    [pc |-> "none", password |-> <<>>, data |-> <<>>, iv |-> <<>>,
     blob |-> <<>>, out |-> Ok(<<>>), filename |-> <<>>,
     encrypted_filename |-> <<>>]

\* the <<encrypted name, name>> pairs of one encrypted path
Origin(encrypted_parts, parts) ==
    {<<encrypted_parts[i], parts[i]>> : i \in 1..Len(parts)}

\* a path whose directories keep their names: only the file name is encrypted
encrypt_parts_FileNameOnly(key, ivs, parts) ==
    [i \in 1..Len(parts) |->
        IF i = Len(parts) THEN encrypt_filename(key, ivs[i], parts[i])
        ELSE parts[i]]

\* encrypted_parts = [encryptor.encrypt_filename(part) for part in parts]
encrypt_parts(key, ivs, parts) ==
    [i \in 1..Len(parts) |-> encrypt_filename(key, ivs[i], parts[i])]

\* one pass of the loop "for file_path in matching_files": the encrypted
\* path, its parent directories, the encrypted file, the mapping entry
backup_file(key, tree, files, dirs, mapping, rel_path, ivs, iv) ==
    LET encrypted_rel_path == encrypt_parts(key, ivs, rel_path)
        made == mkdir_parents(files, dirs, encrypted_rel_path)
        wrote == encrypt_file(key, iv, tree, rel_path, files, made.dirs,
                              encrypted_rel_path)
    IN  IF ~made.ok
        THEN [ok |-> FALSE, files |-> files, dirs |-> dirs, mapping |-> mapping,
              err |-> made.err, out |-> encrypted_rel_path]
        ELSE IF ~wrote.ok
        THEN [ok |-> FALSE, files |-> files, dirs |-> made.dirs,
              mapping |-> mapping, err |-> wrote.err, out |-> encrypted_rel_path]
        ELSE [ok |-> TRUE, files |-> wrote.files, dirs |-> made.dirs,
              mapping |-> dict_set(mapping, mapping_key(encrypted_rel_path),
                                   mapping_value(rel_path)),
              err |-> "", out |-> encrypted_rel_path]

\* the mapping file: json.dumps, encrypt_data, written to backup_dir/mapping.enc
save_mapping(key, iv, mapping, files) ==
    [q \in DOMAIN files \cup {MAPPING_ENC} |->
        IF q = MAPPING_ENC
        THEN encrypt_data(key, iv, utf8_encode(json_dumps(mapping)))
        ELSE files[q]]

\* backup() up to the loop: load_config, the scan, the early return on an
\* empty selection, init_repo, the clearing of backup_dir
BackupStart ==
    /\ Stopped(bk) /\ Stopped(rs)
    /\ runs < MaxRuns /\ restores = 0 /\ tampers = 0
    /\ runs' = runs + 1
    /\ \E t \in 1..NumTrees :
       LET matching_files == get_matching_files(Tree(t)) IN
       /\ source' = t
       /\ IF matching_files = {}
          THEN /\ bk' = [BkIdle EXCEPT !.pc = "done", !.early = TRUE,
                                       !.key = derive(Password(1)),
                                       !.origin = bk.origin]
               /\ UNCHANGED <<mirror, mirrorDirs, gitDir>>
          ELSE /\ gitDir' = TRUE
               /\ mirror' = clear_backup_dir(mirror)
               /\ mirrorDirs' = clear_backup_dirs(mirrorDirs)
               /\ bk' = [BkIdle EXCEPT !.pc = "files",
                                       !.key = derive(Password(1)),
                                       !.todo = matching_files,
                                       !.selected = matching_files,
                                       !.stale = Cardinality(DOMAIN mirror \cup mirrorDirs)]
    /\ UNCHANGED <<dest, destDirs, rs, restores, tampers, cx, disk, sch>>

\* one file of the loop; an exception leaves backup()
BackupFile ==
    /\ bk.pc = "files" /\ bk.todo # {}
    /\ \E file_path \in bk.todo :
       \E k \in 1..NumIVs :
          LET ivs == PassIVs(k, Len(file_path))
              iv == PassIVs(k, Len(file_path) + 1)[Len(file_path) + 1]
              r == backup_file(bk.key, Tree(source), mirror, mirrorDirs,
                               bk.mapping, file_path, ivs, iv)
          IN  /\ mirror' = r.files
              /\ mirrorDirs' = r.dirs
              /\ bk' = IF r.ok
                       THEN [bk EXCEPT !.todo = @ \ {file_path},
                                       !.mapping = r.mapping,
                                       !.made = @ \cup Changed(mirror, r.files)
                                                  \cup (r.dirs \ mirrorDirs),
                                       !.enc = (file_path :> r.out) @@ @,
                                       !.origin = @ \cup Origin(r.out, file_path)]
                       ELSE [bk EXCEPT !.pc = "failed", !.err = r.err,
                                       !.made = @ \cup Changed(mirror, r.files)
                                                  \cup (r.dirs \ mirrorDirs),
                                       !.origin = @ \cup Origin(r.out, file_path)]
    /\ UNCHANGED <<source, gitDir, dest, destDirs, rs, runs, restores, tampers, cx,
                   disk, sch>>

\* after the loop: the mapping file is written
BackupSave ==
    /\ bk.pc = "files" /\ bk.todo = {}
    /\ \E iv \in IVs : mirror' = save_mapping(bk.key, iv, bk.mapping, mirror)
    /\ bk' = [bk EXCEPT !.pc = "commit", !.saved = TRUE,
                        !.made = @ \cup {MAPPING_ENC}]
    /\ UNCHANGED <<source, mirrorDirs, gitDir, dest, destDirs, rs, runs,
                   restores, tampers, cx, disk, sch>>

\* git_backup.commit_and_push(commit_msg), the last call of backup()
BackupCommit ==
    /\ bk.pc = "commit"
    /\ bk' = [bk EXCEPT !.pc = "done", !.committed = TRUE]
    /\ UNCHANGED <<source, mirror, mirrorDirs, gitDir, dest, destDirs, rs, runs,
                   restores, tampers, cx, disk, sch>>

-----------------------------------------------------------------------------
(* restore() *)

\* a load that takes a mapping file that is not there for an empty mapping
load_mapping_MissingIsEmpty(key, hasGit, files) ==
    IF ~hasGit THEN Fail("ValueError: Git repository URL is required for cloning")
    ELSE IF MAPPING_ENC \notin DOMAIN files THEN Ok(<<>>)
    ELSE LET decrypted == decrypt_data(key, files[MAPPING_ENC]) IN
         IF ~decrypted.ok THEN decrypted
         ELSE LET mapping_json == utf8_decode(decrypted.val) IN
              IF ~mapping_json.ok THEN mapping_json
              ELSE json_loads(mapping_json.val)

\* a load that takes a mapping file it cannot decrypt for an empty mapping
load_mapping_Lenient(key, hasGit, files) ==
    IF ~hasGit THEN Fail("ValueError: Git repository URL is required for cloning")
    ELSE IF MAPPING_ENC \notin DOMAIN files THEN Fail("SystemExit: Mapping file not found")
    ELSE LET decrypted == decrypt_data(key, files[MAPPING_ENC]) IN
         IF ~decrypted.ok THEN Ok(<<>>)
         ELSE LET mapping_json == utf8_decode(decrypted.val) IN
              IF ~mapping_json.ok THEN mapping_json
              ELSE json_loads(mapping_json.val)

\* restore() up to the loop: clone_or_pull (no remote is configured), the
\* mapping file read, decrypted, decoded and parsed
load_mapping(key, hasGit, files) ==
    IF ~hasGit THEN Fail("ValueError: Git repository URL is required for cloning")
    ELSE IF MAPPING_ENC \notin DOMAIN files THEN Fail("SystemExit: Mapping file not found")
    ELSE LET decrypted == decrypt_data(key, files[MAPPING_ENC]) IN
         IF ~decrypted.ok THEN decrypted
         ELSE LET mapping_json == utf8_decode(decrypted.val) IN
              IF ~mapping_json.ok THEN mapping_json
              ELSE json_loads(mapping_json.val)

\* a pass that does not look whether the encrypted file exists
restore_entry_NoExistsCheck(key, files, dirs, out, outDirs, item) ==
    LET r == decrypt_file(key, files, dirs, path_parts(item[1]),
                          out, outDirs, path_parts(item[2]))
    IN  [ok |-> r.ok, skipped |-> FALSE, out |-> r.out,
         outDirs |-> r.outDirs, err |-> r.err, path |-> path_parts(item[2])]

\* one pass of the loop "for encrypted_rel_path, original_rel_path in
\* mapping.items()"
restore_entry(key, files, dirs, out, outDirs, item) ==
    LET encrypted_full_path == path_parts(item[1])
        restore_full_path == path_parts(item[2])
    IN  IF ~mirror_exists(files, dirs, encrypted_full_path)
        THEN [ok |-> TRUE, skipped |-> TRUE, out |-> out, outDirs |-> outDirs,
              err |-> "", path |-> restore_full_path]
        ELSE LET r == decrypt_file(key, files, dirs, encrypted_full_path,
                                   out, outDirs, restore_full_path)
             IN  [ok |-> r.ok, skipped |-> FALSE, out |-> r.out,
                  outDirs |-> r.outDirs, err |-> r.err,
                  path |-> restore_full_path]

RestoreStart ==
    /\ Stopped(bk) /\ Stopped(rs)
    /\ restores < MaxRestores
    /\ restores' = restores + 1
    /\ \E pw \in Passwords :
          LET key == derive(pw)
              m == load_mapping(key, gitDir, mirror)
          IN  IF m.ok
              THEN /\ rs' = [RsIdle EXCEPT !.pc = "entries", !.key = key,
                                           !.mapping = m.val, !.idx = 1,
                                           !.tampers = tampers,
                                           !.madeDirs = {<<>>} \ destDirs]
                   /\ destDirs' = destDirs \cup {<<>>}
              ELSE /\ rs' = [RsIdle EXCEPT !.pc = "failed", !.key = key,
                                           !.err = m.err, !.tampers = tampers]
                   /\ UNCHANGED destDirs
    /\ UNCHANGED <<source, mirror, mirrorDirs, gitDir, dest, bk, runs, tampers, cx,
                   disk, sch>>

RestoreEntry ==
    /\ rs.pc = "entries" /\ rs.idx <= Len(rs.mapping)
    /\ LET r == restore_entry(rs.key, mirror, mirrorDirs, dest, destDirs,
                              rs.mapping[rs.idx])
       IN  /\ dest' = r.out
           /\ destDirs' = r.outDirs
           /\ rs' = IF ~r.ok
                    THEN [rs EXCEPT !.pc = "failed", !.err = r.err,
                                    !.writes = @ \cup Changed(dest, r.out),
                                    !.madeDirs = @ \cup (r.outDirs \ destDirs)]
                    ELSE IF r.skipped
                    THEN [rs EXCEPT !.idx = @ + 1, !.skipped = @ \cup {rs.idx},
                                    !.writes = @ \cup Changed(dest, r.out),
                                    !.madeDirs = @ \cup (r.outDirs \ destDirs)]
                    ELSE [rs EXCEPT !.idx = @ + 1,
                                    !.restored_count = @ + 1,
                                    !.writes = @ \cup Changed(dest, r.out),
                                    !.madeDirs = @ \cup (r.outDirs \ destDirs)]
    /\ UNCHANGED <<source, mirror, mirrorDirs, gitDir, bk, runs, restores,
                   tampers, cx, disk, sch>>

RestoreFinish ==
    /\ rs.pc = "entries" /\ rs.idx > Len(rs.mapping)
    /\ rs' = [rs EXCEPT !.pc = "done"]
    /\ UNCHANGED <<source, mirror, mirrorDirs, gitDir, dest, destDirs, bk, runs,
                   restores, tampers, cx, disk, sch>>

-----------------------------------------------------------------------------
(* What happens around the two programs *)

\* a mirror that reached the restoring machine without one of its files
DropMirrorFile ==
    /\ Stopped(bk) /\ Stopped(rs)
    /\ tampers < MaxTampers /\ restores < MaxRestores
    /\ tampers' = tampers + 1
    /\ \E p \in DOMAIN mirror :
          mirror' = [q \in DOMAIN mirror \ {p} |-> mirror[q]]
    /\ UNCHANGED <<source, mirrorDirs, gitDir, dest, destDirs, bk, rs, runs,
                   restores, cx, disk, sch>>

\* a mirror one file of which lost its last byte
TruncateMirrorFile ==
    /\ Stopped(bk) /\ Stopped(rs)
    /\ tampers < MaxTampers /\ restores < MaxRestores
    /\ tampers' = tampers + 1
    /\ \E p \in DOMAIN mirror :
          mirror' = [mirror EXCEPT ![p] = SubSeq(@, 1, Len(@) - 1)]
    /\ UNCHANGED <<source, mirrorDirs, gitDir, dest, destDirs, bk, rs, runs,
                   restores, cx, disk, sch>>

Init ==
    /\ source = 0
    /\ mirror = EmptyFiles
    /\ mirrorDirs = {}
    /\ gitDir = FALSE
    /\ dest = EmptyFiles
    /\ destDirs = {}
    /\ bk = BkIdle
    /\ rs = RsIdle
    /\ runs = 0
    /\ restores = 0
    /\ tampers = 0
    /\ cx = CxIdle
    /\ disk = DiskIdle
    /\ sch = SchIdle

Next ==
    \/ BackupStart
    \/ BackupFile
    \/ BackupSave
    \/ BackupCommit
    \/ RestoreStart
    \/ RestoreEntry
    \/ RestoreFinish
    \/ DropMirrorFile
    \/ TruncateMirrorFile

Spec == Init /\ [][Next]_vars

-----------------------------------------------------------------------------
(* The codec functions on their own: encrypt_data of a BackupEncryptor and *)
(* decrypt_data of a BackupDecryptor made with the same password           *)

\* the longest content tried
MaxDataLen == 33
\* the kinds of content tried: Fill(1..NumFills, _)
NumFills == 3

\* byte i of a content: all zero, all 16 (a content that reads as one block
\* of padding), all 1 (a content whose last byte reads as padding), mixed
Fill(f, i) ==
    CASE f = 1 -> 0
      [] f = 2 -> 16
      [] f = 3 -> 1
      [] OTHER -> ((29 * i) + (7 * f)) % 256

Content(n, f) == [i \in 1..n |-> Fill(f, i)]

Contents == {Content(n, f) : n \in 0..MaxDataLen, f \in 1..NumFills}

\* BackupEncryptor(password).encrypt_data(data)
EncryptData ==
    /\ cx.pc = "plain"
    /\ \E iv \in IVs :
          cx' = [cx EXCEPT !.pc = "encrypted", !.iv = iv,
                           !.blob = encrypt_data(derive(cx.password), iv, cx.data)]
    /\ UNCHANGED <<source, mirror, mirrorDirs, gitDir, dest, destDirs, bk, rs,
                   runs, restores, tampers, disk, sch>>

\* BackupDecryptor(password).decrypt_data(blob)
DecryptData ==
    /\ cx.pc = "encrypted"
    /\ cx' = [cx EXCEPT !.pc = "decrypted",
                        !.out = decrypt_data(derive(cx.password), cx.blob)]
    /\ UNCHANGED <<source, mirror, mirrorDirs, gitDir, dest, destDirs, bk, rs,
                   runs, restores, tampers, disk, sch>>

\* the longest file name tried, in characters
MaxNameLen == 36
\* the kinds of file name tried: NameChar(1..NumNameFills, _)
NumNameFills == 4

\* character i of a file name: all "a", "/" between "a"s, all e-acute (two
\* bytes each), all U+4E2D (three bytes each), all U+1F600 (four bytes each)
NameChar(f, i) ==
    CASE f = 1 -> 97
      [] f = 2 -> IF i % 2 = 0 THEN 47 ELSE 97
      [] f = 3 -> 233
      [] f = 4 -> 20013
      [] OTHER -> 128512

FileName(n, f) == [i \in 1..n |-> NameChar(f, i)]

FileNames == {FileName(n, f) : n \in 0..MaxNameLen, f \in 1..NumNameFills}

\* BackupEncryptor(password).encrypt_filename(filename)
EncryptFilename ==
    /\ cx.pc = "name"
    /\ \E iv \in IVs :
          cx' = [cx EXCEPT !.pc = "encrypted_name", !.iv = iv,
                           !.encrypted_filename =
                               encrypt_filename(derive(cx.password), iv, cx.filename)]
    /\ UNCHANGED <<source, mirror, mirrorDirs, gitDir, dest, destDirs, bk, rs,
                   runs, restores, tampers, disk, sch>>

\* BackupDecryptor(password).decrypt_filename(encrypted_filename)
DecryptFilename ==
    /\ cx.pc = "encrypted_name"
    /\ cx' = [cx EXCEPT !.pc = "decrypted_name",
                        !.out = decrypt_filename(derive(cx.password),
                                                 cx.encrypted_filename)]
    /\ UNCHANGED <<source, mirror, mirrorDirs, gitDir, dest, destDirs, bk, rs,
                   runs, restores, tampers, disk, sch>>

\* what decrypt_data may be given: what encrypt_data returned for the longest
\* content of each kind, cut to every length
Blob(n, f) ==
    LET whole == encrypt_data(derive(Password(1)), IV(1), Content(MaxDataLen, f))
    IN  SubSeq(whole, 1, Min(n, Len(whole)))

Blobs ==
    {Blob(n, f) : n \in 0..(IV_LEN + (BLOCK * ((MaxDataLen \div BLOCK) + 1))),
                  f \in 1..NumFills}

\* BackupDecryptor(password).decrypt_data(blob) for a blob of any length
DecryptBlob ==
    /\ cx.pc = "blob"
    /\ cx' = [cx EXCEPT !.pc = "blob_out",
                        !.out = decrypt_data(derive(cx.password), cx.blob)]
    /\ UNCHANGED <<source, mirror, mirrorDirs, gitDir, dest, destDirs, bk, rs,
                   runs, restores, tampers, disk, sch>>

InitCodec ==
    /\ source = 0
    /\ mirror = EmptyFiles
    /\ mirrorDirs = {}
    /\ gitDir = FALSE
    /\ dest = EmptyFiles
    /\ destDirs = {}
    /\ bk = BkIdle
    /\ rs = RsIdle
    /\ runs = 0
    /\ restores = 0
    /\ tampers = 0
    /\ disk = DiskIdle
    /\ sch = SchIdle
    /\ \E pw \in Passwords :
          \/ \E data \in Contents :
                cx = [CxIdle EXCEPT !.pc = "plain", !.password = pw, !.data = data]
          \/ \E filename \in FileNames :
                cx = [CxIdle EXCEPT !.pc = "name", !.password = pw,
                                    !.filename = filename]
          \/ \E blob \in Blobs :
                cx = [CxIdle EXCEPT !.pc = "blob", !.password = pw, !.blob = blob]

NextCodec ==
    \/ EncryptData
    \/ DecryptData
    \/ EncryptFilename
    \/ DecryptFilename
    \/ DecryptBlob

SpecCodec == InitCodec /\ [][NextCodec]_vars

-----------------------------------------------------------------------------
(* backup() on one file system.  The paths are absolute, source_dir and    *)
(* backup_dir are where the configuration puts them: apart, the same       *)
(* directory, or backup_dir inside source_dir                              *)

\* configurations of source_dir and backup_dir tried: Layout(1..NumLayouts)
NumLayouts == 3
\* source directories tried in each configuration: LayoutTree(1..NumLayoutTrees)
NumLayoutTrees == 3
\* calls of backup() on the one file system
MaxLayoutRuns == 2

dSrc == <<115, 114, 99>>
dBak == <<98, 97, 107>>
GIT == <<<<46, 103, 105, 116>>>>
GIT_HEAD == <<<<46, 103, 105, 116>>, <<72, 69, 65, 68>>>>

\* config['source_dir'] and config['backup_dir']
Layout(n) ==
    CASE n = 1 -> [source_dir |-> <<dSrc>>, backup_dir |-> <<dBak>>]
      [] n = 2 -> [source_dir |-> <<dSrc>>, backup_dir |-> <<dSrc>>]
      [] n = 3 -> [source_dir |-> <<dSrc>>, backup_dir |-> <<dSrc, dBak>>]
      [] OTHER -> [source_dir |-> <<dBak, dSrc>>, backup_dir |-> <<dBak>>]

\* the source directories placed on the one file system
LayoutTree(n) == Tree(n + 1)

\* path is inside the directory dir
Under(path, dir) == Len(path) > Len(dir) /\ SubSeq(path, 1, Len(dir)) = dir

\* path.relative_to(dir) for a path inside dir
relative_to(path, dir) == SubSeq(path, Len(dir) + 1, Len(path))

\* the directory dir and the directories above it
WithAncestors(dir) == {SubSeq(dir, 1, n) : n \in 1..Len(dir)}

\* FileListReader.get_matching_files: os.walk(source_dir) visits every file
\* inside source_dir, whichever directory of it holds the file
walk_matching_files(files, source_dir, patterns) ==
    {file_path \in DOMAIN files :
        /\ Under(file_path, source_dir)
        /\ \E pat \in patterns :
              match_file(pat, relative_to(file_path, source_dir))}

\* GitBackup.init_repo: an existing repository is used, else backup_dir is
\* made with its parents and Repo.init makes .git in it
init_repo(files, dirs, backup_dir) ==
    IF backup_dir \in dirs /\ (backup_dir \o GIT) \in dirs
    THEN [files |-> files, dirs |-> dirs]
    ELSE [files |-> ((backup_dir \o GIT_HEAD) :> <<0>>) @@ files,
          dirs |-> dirs \cup WithAncestors(backup_dir) \cup {backup_dir \o GIT}]

\* what the clearing loop of backup() removes: every item of backup_path but
\* .git, a directory with all it holds
Cleared(path, backup_path) ==
    Under(path, backup_path) /\ <<path[Len(backup_path) + 1]>> # GIT

clear_backup_path(files, backup_path) ==
    [f \in {f \in DOMAIN files : ~Cleared(f, backup_path)} |-> files[f]]

clear_backup_path_dirs(dirs, backup_path) ==
    {d \in dirs : ~Cleared(d, backup_path)}

\* one pass of the loop "for file_path in matching_files" on the file
\* system: the encrypted path, its parent directories, then encrypt_file,
\* which opens file_path to read it before it opens the output
backup_path_file(key, files, unreadable, dirs, mapping, source_dir, backup_path, file_path, ivs, iv) ==
    LET rel_path == relative_to(file_path, source_dir)
        encrypted_rel_path == encrypt_parts(key, ivs, rel_path)
        encrypted_full_path == backup_path \o encrypted_rel_path
        parents == Parents(encrypted_full_path)
    IN  IF \E d \in parents : d \in DOMAIN files
        THEN [ok |-> FALSE, files |-> files, dirs |-> dirs, mapping |-> mapping,
              err |-> "FileExistsError", out |-> encrypted_full_path]
        ELSE IF file_path \notin DOMAIN files
        THEN [ok |-> FALSE, files |-> files, dirs |-> dirs \cup parents,
              mapping |-> mapping, err |-> "FileNotFoundError",
              out |-> encrypted_full_path]
        ELSE IF file_path \in unreadable
        THEN [ok |-> FALSE, files |-> files, dirs |-> dirs \cup parents,
              mapping |-> mapping, err |-> "SourceReadError",
              out |-> encrypted_full_path]
        ELSE IF encrypted_full_path \in dirs
        THEN [ok |-> FALSE, files |-> files, dirs |-> dirs \cup parents,
              mapping |-> mapping, err |-> "IsADirectoryError",
              out |-> encrypted_full_path]
        ELSE [ok |-> TRUE,
              files |-> [q \in DOMAIN files \cup {encrypted_full_path} |->
                            IF q = encrypted_full_path
                            THEN encrypt_data(key, iv, files[file_path])
                            ELSE files[q]],
              dirs |-> dirs \cup parents,
              mapping |-> dict_set(mapping, mapping_key(encrypted_rel_path),
                                   mapping_value(rel_path)),
              err |-> "", out |-> encrypted_full_path]

\* the source directory LayoutTree(t) placed at source_dir
PlacedFiles(t, source_dir) ==
    [f \in {source_dir \o p : p \in DOMAIN LayoutTree(t).files} |->
        LayoutTree(t).files[relative_to(f, source_dir)]]

PlacedDirs(t, source_dir) ==
    WithAncestors(source_dir)
        \cup {source_dir \o d :
                 d \in UNION {Parents(p) : p \in DOMAIN LayoutTree(t).files}}

\* backup() up to the loop: the scan, the early return on an empty
\* selection, init_repo, the clearing of backup_path
DiskBackupStart ==
    /\ disk.pc \in {"idle", "done", "failed"}
    /\ disk.runs < MaxLayoutRuns
    /\ LET matching_files ==
               walk_matching_files(disk.files, disk.source_dir, disk.patterns)
           repo == init_repo(disk.files, disk.dirs, disk.backup_dir)
       IN  IF matching_files = {}
           THEN disk' = [disk EXCEPT !.pc = "done", !.runs = @ + 1,
                                     !.early = TRUE, !.err = "",
                                     !.matching_files = {}, !.todo = {},
                                     !.before = disk.files]
           ELSE disk' = [disk EXCEPT
                   !.pc = "files", !.runs = @ + 1, !.early = FALSE, !.err = "",
                   !.matching_files = matching_files, !.todo = matching_files,
                   !.mapping = <<>>,
                   !.before = disk.files,
                   !.files = clear_backup_path(repo.files, disk.backup_dir),
                   !.dirs = clear_backup_path_dirs(repo.dirs, disk.backup_dir)]
    /\ UNCHANGED <<source, mirror, mirrorDirs, gitDir, dest, destDirs, bk, rs,
                   runs, restores, tampers, cx, sch>>

\* one file of the loop; an exception leaves backup()
DiskBackupFile ==
    /\ disk.pc = "files" /\ disk.todo # {}
    /\ \E file_path \in disk.todo :
       \E k \in 1..NumIVs :
          LET n == Len(relative_to(file_path, disk.source_dir))
              ivs == PassIVs(k, n)
              iv == PassIVs(k, n + 1)[n + 1]
              r == backup_path_file(disk.key, disk.files, disk.unreadable,
                                    disk.dirs, disk.mapping, disk.source_dir,
                                    disk.backup_dir, file_path, ivs, iv)
          IN  disk' = IF r.ok
                      THEN [disk EXCEPT !.files = r.files, !.dirs = r.dirs,
                                        !.mapping = r.mapping,
                                        !.todo = @ \ {file_path},
                                        !.wrote = @ \cup {r.out}]
                      ELSE [disk EXCEPT !.pc = "failed", !.err = r.err,
                                        !.dirs = r.dirs]
    /\ UNCHANGED <<source, mirror, mirrorDirs, gitDir, dest, destDirs, bk, rs,
                   runs, restores, tampers, cx, sch>>

\* after the loop: the mapping file is written to backup_path/mapping.enc
DiskBackupSave ==
    /\ disk.pc = "files" /\ disk.todo = {}
    /\ \E iv \in IVs :
          LET mapping_encrypted_path == disk.backup_dir \o MAPPING_ENC IN
          disk' = [disk EXCEPT
                     !.pc = "commit",
                     !.files = (mapping_encrypted_path :>
                                   encrypt_data(disk.key, iv,
                                       utf8_encode(json_dumps(disk.mapping))))
                               @@ @,
                     !.wrote = @ \cup {mapping_encrypted_path}]
    /\ UNCHANGED <<source, mirror, mirrorDirs, gitDir, dest, destDirs, bk, rs,
                   runs, restores, tampers, cx, sch>>

\* git_backup.commit_and_push(commit_msg): the commit moves .git/HEAD
DiskBackupCommit ==
    /\ disk.pc = "commit"
    /\ disk' = [disk EXCEPT !.pc = "done",
                            !.files = ((disk.backup_dir \o GIT_HEAD) :>
                                          <<disk.runs>>) @@ @]
    /\ UNCHANGED <<source, mirror, mirrorDirs, gitDir, dest, destDirs, bk, rs,
                   runs, restores, tampers, cx, sch>>

InitDisk ==
    /\ source = 0
    /\ mirror = EmptyFiles
    /\ mirrorDirs = {}
    /\ gitDir = FALSE
    /\ dest = EmptyFiles
    /\ destDirs = {}
    /\ bk = BkIdle
    /\ rs = RsIdle
    /\ runs = 0
    /\ restores = 0
    /\ tampers = 0
    /\ cx = CxIdle
    /\ sch = SchIdle
    /\ \E l \in 1..NumLayouts :
       \E t \in 1..NumLayoutTrees :
       \E more \in {{}, {dBak}} :
          disk = [DiskIdle EXCEPT
                    !.pc = "idle",
                    !.source_dir = Layout(l).source_dir,
                    !.backup_dir = Layout(l).backup_dir,
                    !.patterns = LayoutTree(t).patterns \cup more,
                    !.unreadable = {Layout(l).source_dir \o p :
                                       p \in LayoutTree(t).unreadable},
                    !.key = derive(Password(1)),
                    !.files = PlacedFiles(t, Layout(l).source_dir),
                    !.dirs = PlacedDirs(t, Layout(l).source_dir),
                    !.before = PlacedFiles(t, Layout(l).source_dir)]

NextDisk ==
    \/ DiskBackupStart
    \/ DiskBackupFile
    \/ DiskBackupSave
    \/ DiskBackupCommit

SpecDisk == InitDisk /\ [][NextDisk]_vars

-----------------------------------------------------------------------------
(* scheduler.py: BackupScheduler.run, _run_backup and _signal_handler.     *)
(* run() is the main thread; Python runs the handler of a signal in the    *)
(* main thread between two of its instructions, and lets time.sleep and    *)
(* subprocess.run go on when the handler returns.  An interval is counted  *)
(* in the time.sleep calls it takes.                                       *)

\* time.sleep calls of one interval: 1..MaxInterval
MaxInterval == 2
\* SIGINT and SIGTERM delivered to the scheduler
MaxSignals == 2
\* the backups started are counted up to MaxBackups
MaxBackups == 3

\* the other variables of the module
others == <<source, mirror, mirrorDirs, gitDir, dest, destDirs, bk, rs, runs,
            restores, tampers, cx, disk>>

\* config = self._load_config(), line 100: sys.exit(1) without a
\* configuration file, else on to the first backup
SchLoadConfig ==
    /\ sch.pc = "load_config"
    /\ sch' = [sch EXCEPT !.pc = IF sch.config_exists THEN "start" ELSE "exited"]
    /\ UNCHANGED others

\* _run_backup up to subprocess.run: the backup subprocess is started
run_backup(s) ==
    [s EXCEPT !.pc = "wait", !.child = @ + 1,
              !.backups = Min(@ + 1, MaxBackups),
              !.late = @ + (IF s.running THEN 0 ELSE 1)]

\* self._run_backup(), called at line 103 and at line 125: the subprocess
\* starts, or subprocess.run raises and _run_backup returns False
SchRunBackup ==
    /\ sch.pc = "start"
    /\ \/ sch' = run_backup(sch)
       \/ sch' = [sch EXCEPT !.pc = "while"]
    /\ UNCHANGED others

\* the backup subprocess ends, subprocess.run and _run_backup return
SchBackupExit ==
    /\ sch.pc = "wait" /\ sch.child > 0
    /\ sch' = [sch EXCEPT !.pc = "while", !.child = @ - 1]
    /\ UNCHANGED others

\* while self.running, line 106; after the loop "Scheduler stopped."
SchWhile ==
    /\ sch.pc = "while"
    /\ sch' = [sch EXCEPT !.pc = IF sch.running THEN "plan" ELSE "stopped"]
    /\ UNCHANGED others

\* lines 108-117: datetime.fromtimestamp raises for an interval too long
\* (to except Exception, line 130), else elapsed = 0
SchPlan ==
    /\ sch.pc = "plan"
    /\ sch' = IF sch.overflow
              THEN [sch EXCEPT !.pc = "retry"]
              ELSE [sch EXCEPT !.pc = "sleep_test", !.elapsed = 0]
    /\ UNCHANGED others

\* while elapsed < self.interval_seconds and self.running, line 119
SchSleepTest ==
    /\ sch.pc = "sleep_test"
    /\ sch' = [sch EXCEPT !.pc = IF sch.elapsed < sch.interval /\ sch.running
                                 THEN "sleeping" ELSE "if_running"]
    /\ UNCHANGED others

\* time.sleep(time_to_sleep) returns; elapsed += time_to_sleep
SchSleep ==
    /\ sch.pc = "sleeping"
    /\ sch' = [sch EXCEPT !.pc = "sleep_test", !.elapsed = @ + 1]
    /\ UNCHANGED others

\* if self.running, line 124
SchIfRunning ==
    /\ sch.pc = "if_running"
    /\ sch' = [sch EXCEPT !.pc = IF sch.running THEN "start" ELSE "while"]
    /\ UNCHANGED others

\* except Exception, lines 130-133: time.sleep(60) returns
SchRetry ==
    /\ sch.pc = "retry"
    /\ sch' = [sch EXCEPT !.pc = "while"]
    /\ UNCHANGED others

\* _signal_handler, run wherever run() is while the process lives
SignalHandler ==
    /\ sch.pc \notin {"none", "stopped", "exited"}
    /\ sch.signals < MaxSignals
    /\ sch' = [sch EXCEPT !.running = FALSE, !.signals = @ + 1]
    /\ UNCHANGED others

\* the steps of run()
SchRun ==
    \/ SchLoadConfig
    \/ SchRunBackup
    \/ SchWhile
    \/ SchPlan
    \/ SchSleepTest
    \/ SchSleep
    \/ SchIfRunning
    \/ SchRetry

InitScheduler ==
    /\ source = 0
    /\ mirror = EmptyFiles
    /\ mirrorDirs = {}
    /\ gitDir = FALSE
    /\ dest = EmptyFiles
    /\ destDirs = {}
    /\ bk = BkIdle
    /\ rs = RsIdle
    /\ runs = 0
    /\ restores = 0
    /\ tampers = 0
    /\ cx = CxIdle
    /\ disk = DiskIdle
    /\ \E interval \in 1..MaxInterval :
       \E config_exists \in BOOLEAN :
       \E overflow \in BOOLEAN :
          sch = [SchIdle EXCEPT !.pc = "load_config", !.interval = interval,
                                !.config_exists = config_exists,
                                !.overflow = overflow]

NextScheduler ==
    \/ SchLoadConfig
    \/ SchRunBackup
    \/ SchBackupExit
    \/ SchWhile
    \/ SchPlan
    \/ SchSleepTest
    \/ SchSleep
    \/ SchIfRunning
    \/ SchRetry
    \/ SignalHandler

\* run() goes on while it can, time.sleep returns, and the backup in progress
\* ends; nothing makes a signal arrive
SpecScheduler ==
    /\ InitScheduler /\ [][NextScheduler]_vars
    /\ WF_vars(SchRun) /\ WF_vars(SchBackupExit)

-----------------------------------------------------------------------------
(* Properties *)

\* the last backup() ran to its end on a non-empty selection and the mirror
\* is as it left it
MirrorOfBackup == bk.pc = "done" /\ ~bk.early /\ tampers = 0

\* restore() was called on the mirror as it is now
RestoreRan == rs.pc # "idle" /\ rs.tampers = tampers

\* C1: after a backup() that completed, once a restore() with the same
\* password has run on the mirror it left, restore_dir holds, for every
\* selected file, a file at the same relative path with the bytes of the
\* source file; and when files were selected that restore() ended without
\* error
C1_RoundTrip ==
    (bk.pc = "done" /\ tampers = 0 /\ RestoreRan /\ rs.key = bk.key
     /\ rs.pc # "entries")
        => /\ ~bk.early => rs.pc = "done"
           /\ \A f \in bk.selected :
                 f \in DOMAIN dest /\ dest[f] = Tree(source).files[f]

\* C1 witness: a restore that completed after a backup of two files, one of
\* them in a directory
C1_Witness ==
    /\ MirrorOfBackup /\ RestoreRan /\ rs.key = bk.key /\ rs.pc = "done"
    /\ Cardinality(bk.selected) = 2
    /\ \E f \in bk.selected : Len(f) = 2 /\ f \in DOMAIN dest

\* C2: a restore() with a password whose key differs from the key of the
\* backup that made the mirror ends in failure, and at no point of the run
\* has it created or changed a file under restore_dir
C2_WrongPassword ==
    (MirrorOfBackup /\ RestoreRan /\ rs.key # bk.key)
        => rs.pc = "failed" /\ rs.writes = {} /\ rs.restored_count = 0

\* C2 witness: a restore with another password has failed on the mirror of a
\* completed backup, at the mapping file
C2_Witness ==
    /\ MirrorOfBackup /\ RestoreRan /\ rs.key # bk.key /\ rs.pc = "failed"
    /\ rs.idx = 0 /\ rs.err = "ValueError: Invalid padding bytes"

\* C3: decrypt_data, with the key of the password encrypt_data was called
\* with, returns the content encrypt_data was given, for every password,
\* every content (the empty one too) and every IV
C3_CipherRoundTrip ==
    cx.pc = "decrypted" => cx.out.ok /\ cx.out.val = cx.data

\* C3 witness: the empty content was encrypted to an IV and one block, and
\* decrypted
C3_Witness ==
    /\ cx.pc = "decrypted" /\ cx.data = <<>> /\ Len(cx.blob) = IV_LEN + BLOCK
    /\ cx.out.ok

\* the items of the mapping restore() loaded whose encrypted path is not in
\* the mirror, and the others
MissingEntries ==
    {i \in 1..Len(rs.mapping) :
        ~mirror_exists(mirror, mirrorDirs, path_parts(rs.mapping[i][1]))}

PresentEntries == (1..Len(rs.mapping)) \ MissingEntries

\* the encrypted file of item i is a file that decrypts under the key of the
\* restore
Decrypts(i) ==
    /\ path_parts(rs.mapping[i][1]) \in DOMAIN mirror
    /\ decrypt_data(rs.key, mirror[path_parts(rs.mapping[i][1])]).ok

\* restore() is in or past its loop, on the mirror as it is now, and the
\* mapping lists a path the mirror does not have
PartialMirror ==
    RestoreRan /\ rs.idx >= 1 /\ MissingEntries # {}

\* C4: when the mapping restore() decrypted lists a path that is not in the
\* mirror, no missing entry makes it fail (it fails only at a present entry
\* that does not decrypt, and ends without error when every present entry
\* decrypts); it skips exactly the missing entries; once it has ended,
\* every present entry is at its original relative path under restore_dir,
\* and restored_count is the number of present entries, less than the
\* number of entries
C4_PartialMirror ==
    PartialMirror =>
        /\ rs.skipped = {i \in MissingEntries : i < rs.idx}
        /\ rs.restored_count = Cardinality({i \in PresentEntries : i < rs.idx})
        /\ rs.pc = "failed" => rs.idx \in PresentEntries /\ ~Decrypts(rs.idx)
        /\ (rs.pc # "entries" /\ \A i \in PresentEntries : Decrypts(i))
               => rs.pc = "done"
        /\ rs.pc = "done" =>
              /\ rs.restored_count = Cardinality(PresentEntries)
              /\ rs.restored_count < Len(rs.mapping)
              /\ \A i \in PresentEntries :
                    LET to == path_parts(rs.mapping[i][2])
                        from == path_parts(rs.mapping[i][1])
                    IN  /\ to \in DOMAIN dest
                        /\ Ok(dest[to]) = decrypt_data(rs.key, mirror[from])

\* C4 witness: a restore has ended without error on a mirror that lacks the
\* file of one of two entries: one skipped, one restored
C4_Witness ==
    /\ PartialMirror /\ rs.pc = "done" /\ Len(rs.mapping) = 2
    /\ Cardinality(rs.skipped) = 1 /\ rs.restored_count = 1
    /\ Cardinality(DOMAIN dest) = 1

\* the loop and the writing of the mapping file are behind the last backup()
TransformDone == bk.saved /\ tampers = 0

\* C5: once the loop of backup() has taken the N selected files and the
\* mapping file is written, backup_dir (without .git) holds N encrypted
\* files, one for each selected file, and the one mapping file, at its root;
\* the encrypted file of a selected file lies as many names deep as the file
\* lies under source_dir
C5_TreeShape ==
    TransformDone =>
        /\ MAPPING_ENC \in DOMAIN mirror
        /\ Cardinality(DOMAIN mirror \ {MAPPING_ENC}) = Cardinality(bk.selected)
        /\ DOMAIN bk.enc = bk.selected
        /\ \A f \in bk.selected :
              /\ bk.enc[f] \in DOMAIN mirror \ {MAPPING_ENC}
              /\ Len(bk.enc[f]) = Len(f)
        /\ \A f, g \in bk.selected : bk.enc[f] = bk.enc[g] => f = g
        /\ \A d \in mirrorDirs :
              \E f \in bk.selected :
                  Len(d) < Len(f) /\ d = SubSeq(bk.enc[f], 1, Len(d))

\* C5 witness: the second backup() in a row has written its mapping file, for
\* two files, one in a directory and one not
C5_Witness ==
    /\ TransformDone /\ runs = 2 /\ bk.stale > 0
    /\ Cardinality(bk.selected) = 2
    /\ \E f, g \in bk.selected : Len(f) = 1 /\ Len(g) = 2

\* the names of the files and directories of backup_dir
MirrorNames ==
    UNION {{p[i] : i \in 1..Len(p)} : p \in (DOMAIN mirror \cup mirrorDirs)}

\* the names that make up the relative paths of the selected files
SelectedNames ==
    UNION {{f[i] : i \in 1..Len(f)} : f \in bk.selected}

\* sub occurs in s
Contains(sub, s) ==
    \E i \in 1..(Len(s) - Len(sub) + 1) : SubSeq(s, i, i + Len(sub) - 1) = sub

\* C6 as stated: after a completed backup no name in backup_dir, but that of
\* the mapping file, is or contains a name of a selected file's path, and
\* each is a result of encrypt_filename
C6_NamesHidden ==
    (bk.pc = "done" /\ ~bk.early /\ tampers = 0) =>
        \A name \in MirrorNames \ {MAPPING_ENC[1]} :
            /\ \A c \in SelectedNames : name # c /\ ~Contains(c, name)
            /\ \E pair \in bk.origin : pair[1] = name

\* C6 amended: after a completed backup every name in backup_dir, but that
\* of the mapping file, is what encrypt_filename returned for one name of a
\* backed-up path, and is longer than that name, so never equal to it
C6_NamesEncrypted ==
    (bk.pc = "done" /\ tampers = 0) =>
        \A name \in MirrorNames \ {MAPPING_ENC[1]} :
            \E pair \in bk.origin :
                /\ pair[1] = name
                /\ Len(name) > Len(pair[2])
                /\ \E iv \in IVs : name = encrypt_filename(bk.key, iv, pair[2])

\* C6 witness: a completed backup left a directory and files, and one of the
\* encrypted names contains a name of a selected file's path
C6_Witness ==
    /\ bk.pc = "done" /\ ~bk.early /\ tampers = 0 /\ mirrorDirs # {}
    /\ \E name \in MirrorNames \ {MAPPING_ENC[1]} :
          \E c \in SelectedNames : Contains(c, name)

\* C7 as stated: after every backup() that ran to its end, whatever was
\* selected, backup_dir (without .git) holds only what this run wrote
C7_FullRebuild ==
    (bk.pc = "done" /\ tampers = 0) =>
        (DOMAIN mirror \cup mirrorDirs) \subseteq bk.made

\* C7 witness: a backup() that selected no file has ended, and backup_dir
\* still holds what an earlier run wrote
C7_Witness ==
    /\ bk.pc = "done" /\ bk.early /\ runs = 2 /\ tampers = 0
    /\ MAPPING_ENC \in DOMAIN mirror

\* C8: when backup() has just written the mapping file, the mapping has one
\* item for each file the run encrypted and no other; the key of each item
\* is the encrypted relative path of a file that is in backup_dir, and its
\* value the relative path, under source_dir, of the file whose content
\* that file holds encrypted
C8_MappingConsistent ==
    bk.pc = "commit" =>
        /\ Len(bk.mapping) = Cardinality(DOMAIN bk.enc)
        /\ DOMAIN bk.enc = bk.selected
        /\ \A i, j \in 1..Len(bk.mapping) :
              bk.mapping[i][1] = bk.mapping[j][1] => i = j
        /\ \A i \in 1..Len(bk.mapping) :
              /\ path_parts(bk.mapping[i][1]) \in DOMAIN mirror
              /\ \E f \in DOMAIN bk.enc :
                    /\ bk.mapping[i][1] = path_str(bk.enc[f])
                    /\ bk.mapping[i][2] = path_str(f)
                    /\ decrypt_data(bk.key, mirror[bk.enc[f]])
                          = Ok(Tree(source).files[f])

\* C8 witness: the mapping file has just been written for two files, one of
\* them in a directory
C8_Witness ==
    /\ bk.pc = "commit" /\ Len(bk.mapping) = 2
    /\ \E f \in DOMAIN bk.enc : Len(f) = 2

\* the selected files the running or last backup() cannot read
Unreadable == bk.selected \cap Tree(source).unreadable

\* C9: a backup() that fails to read a selected file ends there: the file is
\* not taken as done, the run takes no further step (no other file, no
\* mapping file, no commit_and_push), and backup_dir holds the encrypted
\* files of the files done before it and no mapping file
C9_BackupFailFast ==
    /\ [](/\ \A f \in Unreadable : f \in bk.todo
          /\ Unreadable # {} =>
                /\ bk.pc \in {"files", "failed"}
                /\ ~bk.saved /\ ~bk.committed
                /\ MAPPING_ENC \notin DOMAIN mirror
          /\ (bk.pc = "failed" /\ bk.err = "SourceReadError" /\ tampers = 0) =>
                /\ bk.todo \cap Unreadable # {}
                /\ DOMAIN bk.enc = bk.selected \ bk.todo
                /\ DOMAIN mirror = {bk.enc[f] : f \in DOMAIN bk.enc})
    /\ [][(bk.pc = "failed" /\ runs' = runs) =>
              /\ bk' = bk
              /\ tampers' = tampers => mirror' = mirror /\ mirrorDirs' = mirrorDirs]_vars

\* C9 witness: backup() has failed to read one selected file after it had
\* encrypted another
C9_Witness ==
    /\ bk.pc = "failed" /\ bk.err = "SourceReadError" /\ tampers = 0
    /\ Cardinality(DOMAIN bk.enc) = 1 /\ Cardinality(bk.todo) = 1
    /\ Cardinality(DOMAIN mirror) = 1

\* the restore_dir path of the item of the mapping restore() is at
RestorePath(i) == path_parts(rs.mapping[i][2])

\* C10: a restore() that fails to decrypt the encrypted file of an item of
\* the mapping ends there: it has created or changed nothing at the
\* restore_dir path of that item, what it has written are files of earlier
\* items, every earlier item it did not skip decrypts, and it takes no
\* further step
C10_RestoreFailFast ==
    /\ []((rs.pc = "failed" /\ rs.idx >= 1) =>
            /\ RestorePath(rs.idx) \notin rs.writes
            /\ rs.writes \subseteq {RestorePath(j) : j \in 1..(rs.idx - 1)}
            /\ rs.restored_count + Cardinality(rs.skipped) = rs.idx - 1
            /\ RestoreRan =>
                  /\ ~Decrypts(rs.idx)
                  /\ \A j \in (1..(rs.idx - 1)) \ rs.skipped : Decrypts(j))
    /\ [][(rs.pc = "failed" /\ restores' = restores) =>
              rs' = rs /\ dest' = dest /\ destDirs' = destDirs]_vars

\* C10 witness: restore() has failed at the first of two items, on an
\* encrypted file that lost a byte, and restore_dir holds no file
C10_Witness ==
    /\ rs.pc = "failed" /\ rs.idx = 1 /\ Len(rs.mapping) = 2 /\ RestoreRan
    /\ rs.err = "ValueError: not a multiple of the block length"
    /\ dest = EmptyFiles

\* what restore() ends with when backup_dir has no mapping file
MappingNotFound == "SystemExit: Mapping file not found"

\* C11: a restore() on a repository without the mapping file ends with the
\* mapping-not-found exit, before it has made restore_dir or written a file;
\* a restore() that fails on a repository with the mapping file (wrong key,
\* damaged file) ends with another error
C11_MissingMapping ==
    /\ (RestoreRan /\ gitDir /\ MAPPING_ENC \notin DOMAIN mirror) =>
          /\ rs.pc = "failed" /\ rs.err = MappingNotFound
          /\ rs.idx = 0 /\ rs.restored_count = 0
          /\ rs.writes = {} /\ rs.madeDirs = {}
    /\ (RestoreRan /\ rs.pc = "failed" /\ MAPPING_ENC \in DOMAIN mirror) =>
          rs.err # MappingNotFound

\* C11 witness: restore() has ended with the mapping-not-found exit on the
\* mirror of a completed backup that lost its mapping file
C11_Witness ==
    /\ RestoreRan /\ gitDir /\ MAPPING_ENC \notin DOMAIN mirror
    /\ bk.pc = "done" /\ tampers = 1 /\ DOMAIN mirror # {}
    /\ rs.pc = "failed" /\ rs.err = MappingNotFound /\ destDirs = {}

\* C12: decrypt_filename, with the key of the password encrypt_filename was
\* called with, returns the name encrypt_filename was given, for every
\* password, IV and name (the empty one, names with "/", names of several
\* bytes a character, names of several blocks); the "=" decrypt_filename
\* adds from the length of the name make it the base64url text
\* encrypt_filename had stripped
C12_NameRoundTrip ==
    /\ cx.pc = "decrypted_name" => cx.out.ok /\ cx.out.val = cx.filename
    /\ cx.pc \in {"encrypted_name", "decrypted_name"} =>
          b64_pad(cx.encrypted_filename)
              = urlsafe_b64encode(encrypt_data(derive(cx.password), cx.iv,
                                               utf8_encode(cx.filename)))

\* C12 witness: a name of three-byte characters that fills several blocks
\* was encrypted to a text that had lost two "=", and decrypted
C12_Witness ==
    /\ cx.pc = "decrypted_name" /\ cx.out.ok
    /\ Len(cx.filename) > 0 /\ cx.filename[1] = 20013
    /\ Len(utf8_encode(cx.filename)) > 2 * BLOCK
    /\ Len(cx.encrypted_filename) % 4 = 2

\* the length of a blob is that of an IV and whole blocks
WellSized(blob) ==
    Len(blob) >= IV_LEN /\ (Len(blob) - IV_LEN) % BLOCK = 0

\* C13: decrypt_data returns no content for a blob shorter than an IV and
\* for a blob whose length less the IV is not a multiple of the block
\* length; the error it raises then is not the padding error, which is what
\* it raises for a blob of the right size that fails
C13_MalformedBlob ==
    cx.pc = "blob_out" =>
        /\ ~WellSized(cx.blob) =>
              /\ ~cx.out.ok /\ cx.out.val = <<>>
              /\ cx.out.err = IF Len(cx.blob) < IV_LEN
                               THEN "ValueError: Invalid IV size"
                               ELSE "ValueError: not a multiple of the block length"
              /\ cx.out.err # "ValueError: Invalid padding bytes"
        /\ (WellSized(cx.blob) /\ ~cx.out.ok) =>
              cx.out.err = "ValueError: Invalid padding bytes"

\* C13 witness: decrypt_data has refused a blob of an IV, a block and some
\* bytes more
C13_Witness ==
    /\ cx.pc = "blob_out" /\ Len(cx.blob) > IV_LEN + BLOCK /\ ~WellSized(cx.blob)
    /\ cx.out.err = "ValueError: not a multiple of the block length"

\* C14: for a content of n bytes encrypt_data returns 16 + 16 * (n div 16 + 1)
\* bytes: the IV it drew, then a ciphertext of one block or more and of
\* whole blocks; 32 bytes for the empty content, and a block more than the
\* content fills for a content of whole blocks
C14_BlobLayout ==
    cx.pc \in {"encrypted", "decrypted"} =>
        LET n == Len(cx.data)
            ciphertext == SubSeq(cx.blob, IV_LEN + 1, Len(cx.blob))
        IN  /\ Len(cx.blob) = 16 + (16 * ((n \div 16) + 1))
            /\ Len(cx.blob) >= IV_LEN /\ SubSeq(cx.blob, 1, IV_LEN) = cx.iv
            /\ Len(ciphertext) > 0 /\ Len(ciphertext) % BLOCK = 0
            /\ n = 0 => Len(cx.blob) = 32
            /\ n % 16 = 0 => Len(ciphertext) = n + 16

\* C14 witness: a content of two whole blocks was encrypted to an IV and
\* three blocks
C14_Witness ==
    /\ cx.pc = "encrypted" /\ Len(cx.data) = 2 * BLOCK
    /\ Len(cx.blob) = IV_LEN + (3 * BLOCK)

\* a file of backup_dir/.git
InGit(path) == Under(path, disk.backup_dir \o GIT)

\* the files a call of backup() found inside source_dir when it began that
\* no call of backup() wrote and that are not of the repository
SourceFilesBefore ==
    {f \in DOMAIN disk.before :
        Under(f, disk.source_dir) /\ f \notin disk.wrote /\ ~InGit(f)}

\* a call of backup() has begun on the one file system
DiskRan == disk.pc \in {"files", "commit", "done", "failed"}

\* C15: wherever source_dir and backup_dir lie, a call of backup() leaves
\* every source file in place with its bytes, what it writes or deletes is
\* inside backup_dir, and no file it selected is missing when it is read
C15_SourceUntouched ==
    DiskRan =>
        /\ \A f \in SourceFilesBefore :
              f \in DOMAIN disk.files /\ disk.files[f] = disk.before[f]
        /\ \A f \in (DOMAIN disk.before \ DOMAIN disk.files)
                        \cup Changed(disk.before, disk.files) :
              Under(f, disk.backup_dir)
        /\ disk.err # "FileNotFoundError"

\* C15 witness: with backup_dir the source directory itself, a call of
\* backup() selected source files, removed them when it cleared backup_dir
\* and failed to open one
C15_Witness ==
    /\ disk.pc = "failed" /\ disk.err = "FileNotFoundError"
    /\ disk.runs = 1
    /\ disk.source_dir = disk.backup_dir
    /\ disk.matching_files # {}
    /\ \A f \in disk.matching_files :
          f \in DOMAIN disk.before /\ f \notin DOMAIN disk.files

\* a step that starts a backup subprocess
BackupStarts == sch'.child > sch.child

\* C16: however the signal handler falls between the steps of run(), no
\* backup is started once running is False, at most one backup is in
\* progress at a time, and once running is False run() reaches "Scheduler
\* stopped."
C16_GracefulShutdown ==
    /\ [][BackupStarts => sch.running]_vars
    /\ [](sch.child <= 1)
    /\ (~sch.running /\ sch.config_exists) ~> (sch.pc = "stopped")

\* C16 witness: the signal came while run() was between the construction of
\* the scheduler and its first backup; the first backup was then started
\* with running False and is in progress
C16_Witness ==
    /\ sch.pc = "wait" /\ sch.child = 1
    /\ ~sch.running /\ sch.signals > 0
    /\ sch.backups = 1 /\ sch.late = 1

====
